---- MODULE Spec2Model ----
(***************************************************************************)
(* A model of gpt.py: the prompt builder split_document, the model client  *)
(* call_gpt (one chat-completion request, then json.loads of the reply's   *)
(* content) and the console program under `if __name__ == "__main__"`.     *)
(*                                                                         *)
(* Text is a sequence of characters.  A character is a one-character       *)
(* string; a character that has no printable form is named by its escape   *)
(* ("\\ud800" is the lone surrogate U+D800, "\\u0060" the backquote).         *)
(***************************************************************************)
EXTENDS Integers, Sequences, FiniteSets, TLC

(***************************************************************************)
(* Python values, as json.loads produces them.                             *)
(***************************************************************************)
PyNone == [t |-> "None"]
PyBool(b) == [t |-> "bool", b |-> b]
PyInt(n) == [t |-> "int", n |-> n]
PyFloat(lex) == [t |-> "float", lex |-> lex]
PyStr(s) == [t |-> "str", s |-> s]
PyList(a) == [t |-> "list", a |-> a]
PyDict(k, v) == [t |-> "dict", k |-> k, v |-> v]

(***************************************************************************)
(* json.decoder / json.scanner, with the defaults json.loads uses          *)
(* (strict=True, parse_constant accepting NaN, Infinity and -Infinity).    *)
(* Positions are 1-based; Len(s) + 1 is the end of the text.               *)
(***************************************************************************)
WHITESPACE == {" ", "\t", "\n", "\r"}
Digits == {"0", "1", "2", "3", "4", "5", "6", "7", "8", "9"}
DigitVal == [c \in Digits |->
               CASE c = "0" -> 0 [] c = "1" -> 1 [] c = "2" -> 2 [] c = "3" -> 3
                 [] c = "4" -> 4 [] c = "5" -> 5 [] c = "6" -> 6 [] c = "7" -> 7
                 [] c = "8" -> 8 [] c = "9" -> 9]
HexDigits == Digits \cup {"a", "b", "c", "d", "e", "f", "A", "B", "C", "D", "E", "F"}
HexVal(c) ==
  CASE c \in Digits -> DigitVal[c]
    [] c \in {"a", "A"} -> 10 [] c \in {"b", "B"} -> 11 [] c \in {"c", "C"} -> 12
    [] c \in {"d", "D"} -> 13 [] c \in {"e", "E"} -> 14 [] c \in {"f", "F"} -> 15
HexLower(c) ==
  CASE c = "A" -> "a" [] c = "B" -> "b" [] c = "C" -> "c" [] c = "D" -> "d"
    [] c = "E" -> "e" [] c = "F" -> "f" [] OTHER -> c

\* Control characters (below U+0020), which a JSON string may not hold raw.
ControlChars == {"\t", "\n", "\r", "\f", "\\b"}

\* BACKSLASH of json.decoder: the character each one-letter escape stands for.
BACKSLASH(c) ==
  CASE c = "\"" -> "\"" [] c = "\\" -> "\\" [] c = "/" -> "/" [] c = "b" -> "\\b"
    [] c = "f" -> "\f" [] c = "n" -> "\n" [] c = "r" -> "\r" [] c = "t" -> "\t"
EscapeLetters == {"\"", "\\", "/", "b", "f", "n", "r", "t"}

\* The name of the character the escape \uXXXX with hex digits h stands for.
EscapeName(h) ==
  "\\u" \o HexLower(h[1]) \o HexLower(h[2]) \o HexLower(h[3]) \o HexLower(h[4])

\* chr(n) for the code point n that the hex digits h name: the ASCII
\* characters the model writes as themselves, any other by its escape name.
Chr(n, h) ==
  CASE n = 34 -> "\"" [] n = 92 -> "\\" [] n = 32 -> " " [] n = 97 -> "a"
    [] n = 10 -> "\n"
    [] OTHER -> EscapeName(h)

RECURSIVE SkipWS(_, _)
SkipWS(s, i) == IF i <= Len(s) /\ s[i] \in WHITESPACE THEN SkipWS(s, i + 1) ELSE i

MatchAt(s, i, lit) ==
  /\ i + Len(lit) - 1 <= Len(s)
  /\ SubSeq(s, i, i + Len(lit) - 1) = lit

RECURSIVE DigitsEnd(_, _)
DigitsEnd(s, i) == IF i <= Len(s) /\ s[i] \in Digits THEN DigitsEnd(s, i + 1) ELSE i

RECURSIVE DecimalValue(_)
DecimalValue(ds) ==
  IF ds = <<>> THEN 0
  ELSE 10 * DecimalValue(SubSeq(ds, 1, Len(ds) - 1)) + DigitVal[ds[Len(ds)]]

\* NUMBER_RE.match(s, i): (-?(?:0|[1-9]\d*))(\.\d+)?([eE][-+]?\d+)?
\* j is where the digits start, k where the integer part ends, f where the
\* fraction ends and e where the exponent ends.  An integer literal gives an
\* int, one with a fraction or exponent a float.
NumberValue(s, i, j, k, e) ==
  IF e = k
  THEN [ok |-> TRUE, end |-> e,
        v |-> PyInt(IF j > i THEN 0 - DecimalValue(SubSeq(s, j, k - 1))
                    ELSE DecimalValue(SubSeq(s, j, k - 1)))]
  ELSE [ok |-> TRUE, end |-> e, v |-> PyFloat(SubSeq(s, i, e - 1))]
ExponentDigits(s, f, p) == IF p <= Len(s) /\ s[p] \in Digits THEN DigitsEnd(s, p) ELSE f
ExponentEnd(s, f) ==
  IF f <= Len(s) /\ s[f] \in {"e", "E"}
  THEN ExponentDigits(s, f, IF f + 1 <= Len(s) /\ s[f + 1] \in {"+", "-"} THEN f + 2 ELSE f + 1)
  ELSE f
FractionEnd(s, k) ==
  IF k + 1 <= Len(s) /\ s[k] = "." /\ s[k + 1] \in Digits THEN DigitsEnd(s, k + 1) ELSE k
NumberTail(s, i, j, k) == NumberValue(s, i, j, k, ExponentEnd(s, FractionEnd(s, k)))
NumberFrom(s, i, j) ==
  IF ~(j <= Len(s) /\ s[j] \in Digits) THEN [ok |-> FALSE, err |-> "Expecting value"]
  ELSE NumberTail(s, i, j, IF s[j] = "0" THEN j + 1 ELSE DigitsEnd(s, j))
ScanNumber(s, i) == NumberFrom(s, i, IF i <= Len(s) /\ s[i] = "-" THEN i + 1 ELSE i)

\* _decode_uXXXX: the four hex digits after "\u", and the code point they name.
IsHex4(s, i) == i + 3 <= Len(s) /\ \A d \in 0..3 : s[i + d] \in HexDigits
Hex4Val(s, i) ==
  4096 * HexVal(s[i]) + 256 * HexVal(s[i + 1]) + 16 * HexVal(s[i + 2]) + HexVal(s[i + 3])

\* Whether the escape at i (a high surrogate, code point uni) is followed by
\* the escape of a low surrogate, the two making one character.
Paired(s, i, uni) ==
  /\ 55296 <= uni /\ uni <= 56319
  /\ MatchAt(s, i + 6, <<"\\", "u">>)
  /\ IsHex4(s, i + 8)
  /\ Hex4Val(s, i + 8) \in 56320..57343

\* py_scanstring(s, i, strict=True): i is the position after the opening
\* quote (then after each chunk), acc the characters decoded so far.
RECURSIVE ScanString(_, _, _)
ScanString(s, i, acc) ==
  IF i > Len(s) THEN [ok |-> FALSE, err |-> "Unterminated string"]
  ELSE IF s[i] = "\"" THEN [ok |-> TRUE, v |-> PyStr(acc), end |-> i + 1]
  ELSE IF s[i] \in ControlChars THEN [ok |-> FALSE, err |-> "Invalid control character"]
  ELSE IF s[i] # "\\" THEN ScanString(s, i + 1, Append(acc, s[i]))
  ELSE IF i + 1 > Len(s) THEN [ok |-> FALSE, err |-> "Unterminated string"]
  ELSE IF s[i + 1] # "u"
    THEN IF s[i + 1] \in EscapeLetters
         THEN ScanString(s, i + 2, Append(acc, BACKSLASH(s[i + 1])))
         ELSE [ok |-> FALSE, err |-> "Invalid \\escape"]
  ELSE IF ~IsHex4(s, i + 2) THEN [ok |-> FALSE, err |-> "Invalid \\uXXXX escape"]
  ELSE ScanString(s,
                  IF Paired(s, i, Hex4Val(s, i + 2)) THEN i + 12 ELSE i + 6,
                  Append(acc,
                         IF Paired(s, i, Hex4Val(s, i + 2))
                         THEN EscapeName(SubSeq(s, i + 2, i + 5))
                                \o EscapeName(SubSeq(s, i + 8, i + 11))
                         ELSE Chr(Hex4Val(s, i + 2), SubSeq(s, i + 2, i + 5))))

\* dict[key] = value, as the pairs of a JSON object are stored: a repeated
\* key keeps its first position and takes the last value.
DictSet(d, key, val) ==
  IF \E n \in 1..Len(d.k) : d.k[n] = key
  THEN PyDict(d.k, [n \in 1..Len(d.k) |-> IF d.k[n] = key THEN val ELSE d.v[n]])
  ELSE PyDict(Append(d.k, key), Append(d.v, val))

\* The literal at position i, if one of NaN, Infinity and -Infinity is there:
\* what scan_once hands to parse_constant.
ConstantAt(s, i) ==
  IF MatchAt(s, i, <<"N", "a", "N">>) THEN <<"N", "a", "N">>
  ELSE IF MatchAt(s, i, <<"I", "n", "f", "i", "n", "i", "t", "y">>)
    THEN <<"I", "n", "f", "i", "n", "i", "t", "y">>
  ELSE IF MatchAt(s, i, <<"-", "I", "n", "f", "i", "n", "i", "t", "y">>)
    THEN <<"-", "I", "n", "f", "i", "n", "i", "t", "y">>
  ELSE <<>>

\* scan_once past strings, containers and the three names: a number, else
\* (json.loads only, not RFC 8259) one of the constants, else no value.
NumberOrConstant(s, i, constants, num, lit) ==
  IF num.ok THEN num
  ELSE IF constants /\ lit # <<>> THEN [ok |-> TRUE, v |-> PyFloat(lit), end |-> i + Len(lit)]
  ELSE [ok |-> FALSE, err |-> "Expecting value"]

\* scan_once(s, i), JSONArray and JSONObject.  constants is whether NaN,
\* Infinity and -Infinity are taken: json.loads takes them.
RECURSIVE ScanOnce(_, _, _), ArrayItems(_, _, _, _), ArrayNext(_, _, _, _, _),
          ObjectItems(_, _, _, _), ObjectColon(_, _, _, _, _), ObjectNext(_, _, _, _, _)
ScanOnce(s, i, constants) ==
  IF i > Len(s) THEN [ok |-> FALSE, err |-> "Expecting value"]
  ELSE IF s[i] = "\"" THEN ScanString(s, i + 1, <<>>)
  ELSE IF s[i] = "{" THEN
    IF MatchAt(s, SkipWS(s, i + 1), <<"}">>)
    THEN [ok |-> TRUE, v |-> PyDict(<<>>, <<>>), end |-> SkipWS(s, i + 1) + 1]
    ELSE ObjectItems(s, SkipWS(s, i + 1), PyDict(<<>>, <<>>), constants)
  ELSE IF s[i] = "[" THEN
    IF MatchAt(s, SkipWS(s, i + 1), <<"]">>)
    THEN [ok |-> TRUE, v |-> PyList(<<>>), end |-> SkipWS(s, i + 1) + 1]
    ELSE ArrayItems(s, SkipWS(s, i + 1), <<>>, constants)
  ELSE IF MatchAt(s, i, <<"n", "u", "l", "l">>) THEN [ok |-> TRUE, v |-> PyNone, end |-> i + 4]
  ELSE IF MatchAt(s, i, <<"t", "r", "u", "e">>) THEN [ok |-> TRUE, v |-> PyBool(TRUE), end |-> i + 4]
  ELSE IF MatchAt(s, i, <<"f", "a", "l", "s", "e">>)
    THEN [ok |-> TRUE, v |-> PyBool(FALSE), end |-> i + 5]
  ELSE NumberOrConstant(s, i, constants, ScanNumber(s, i), ConstantAt(s, i))

\* JSONArray: the item at position i, then (j being past the whitespace after
\* it) "]" or "," and the next item.
ArrayItems(s, i, acc, constants) == ArrayNext(s, ScanOnce(s, i, constants), acc, constants, 0)
ArrayNext(s, r, acc, constants, j) ==
  IF ~r.ok THEN r
  ELSE IF j = 0 THEN ArrayNext(s, r, acc, constants, SkipWS(s, r.end))
  ELSE IF MatchAt(s, j, <<"]">>) THEN [ok |-> TRUE, v |-> PyList(Append(acc, r.v)), end |-> j + 1]
  ELSE IF MatchAt(s, j, <<",">>) THEN ArrayItems(s, SkipWS(s, j + 1), Append(acc, r.v), constants)
  ELSE [ok |-> FALSE, err |-> "Expecting ',' delimiter"]

\* JSONObject: the key at position i, the colon, the value, then "}" or ","
\* and the next pair.
ObjectItems(s, i, d, constants) ==
  IF ~MatchAt(s, i, <<"\"">>)
  THEN [ok |-> FALSE, err |-> "Expecting property name enclosed in double quotes"]
  ELSE ObjectColon(s, ScanString(s, i + 1, <<>>), d, constants, 0)
ObjectColon(s, key, d, constants, c) ==
  IF ~key.ok THEN key
  ELSE IF c = 0 THEN ObjectColon(s, key, d, constants, SkipWS(s, key.end))
  ELSE IF ~MatchAt(s, c, <<":">>) THEN [ok |-> FALSE, err |-> "Expecting ':' delimiter"]
  ELSE ObjectNext(s, key.v.s, ScanOnce(s, SkipWS(s, c + 1), constants), d, constants)
ObjectNext(s, key, r, d, constants) ==
  IF ~r.ok THEN r
  ELSE IF MatchAt(s, SkipWS(s, r.end), <<"}">>)
    THEN [ok |-> TRUE, v |-> DictSet(d, key, r.v), end |-> SkipWS(s, r.end) + 1]
  ELSE IF MatchAt(s, SkipWS(s, r.end), <<",">>)
    THEN ObjectItems(s, SkipWS(s, SkipWS(s, r.end) + 1), DictSet(d, key, r.v), constants)
  ELSE [ok |-> FALSE, err |-> "Expecting ',' delimiter"]

\* JSONDecoder.decode: one value between optional whitespace, nothing after.
DecodeEnd(s, r) ==
  IF ~r.ok THEN r
  ELSE IF SkipWS(s, r.end) # Len(s) + 1 THEN [ok |-> FALSE, err |-> "Extra data"]
  ELSE r
Decode(s, constants) == DecodeEnd(s, ScanOnce(s, SkipWS(s, 1), constants))

(***************************************************************************)
(* Built-ins the program uses.                                             *)
(***************************************************************************)
DigitChar == <<"0", "1", "2", "3", "4", "5", "6", "7", "8", "9">>

RECURSIVE NatToStr(_)
NatToStr(n) == IF n < 10 THEN <<DigitChar[n + 1]>>
               ELSE Append(NatToStr(n \div 10), DigitChar[(n % 10) + 1])

\* format(n, "") of an int, as an f-string's {n} renders it: decimal digits,
\* a leading "-" when negative.
IntToStr(n) == IF n < 0 THEN <<"-">> \o NatToStr(0 - n) ELSE NatToStr(n)

\* "\n".join(lines)
RECURSIVE Join(_)
Join(lines) ==
  IF lines = <<>> THEN <<>>
  ELSE IF Len(lines) = 1 THEN lines[1]
  ELSE lines[1] \o <<"\n">> \o Join(Tail(lines))

\* str.strip(): whitespace removed at both ends.
StripChars == {" ", "\t", "\n", "\r", "\f"}
RECURSIVE LStrip(_)
LStrip(s) == IF s # <<>> /\ s[1] \in StripChars THEN LStrip(Tail(s)) ELSE s
RECURSIVE RStrip(_)
RStrip(s) == IF s # <<>> /\ s[Len(s)] \in StripChars THEN RStrip(SubSeq(s, 1, Len(s) - 1)) ELSE s

\* int(s) of a str: whitespace stripped, an optional sign, then decimal
\* digits, single underscores allowed between digits; otherwise ValueError.
IntParse(s) ==
  LET b == RStrip(LStrip(s))
      signed == b # <<>> /\ b[1] \in {"+", "-"}
      d == IF signed THEN Tail(b) ELSE b
      wellFormed ==
        /\ d # <<>>
        /\ d[1] \in Digits /\ d[Len(d)] \in Digits
        /\ \A k \in 1..Len(d) : d[k] \in Digits \cup {"_"}
        /\ \A k \in 1..(Len(d) - 1) : ~(d[k] = "_" /\ d[k + 1] = "_")
      mag == DecimalValue(SelectSeq(d, LAMBDA c : c \in Digits))
  IN IF ~wellFormed THEN [ok |-> FALSE, exc |-> "ValueError"]
     ELSE [ok |-> TRUE, n |-> IF signed /\ b[1] = "-" THEN 0 - mag ELSE mag]

\* The base class of each exception class the program can meet.
BaseOf(cls) ==
  CASE cls = "JSONDecodeError" -> "ValueError"
    [] cls = "UnicodeEncodeError" -> "ValueError"
    [] cls = "ValueError" -> "Exception"
    [] cls = "TypeError" -> "Exception"
    [] cls = "EOFError" -> "Exception"
    [] cls = "AuthenticationError" -> "OpenAIError"
    [] cls = "APIConnectionError" -> "OpenAIError"
    [] cls = "RateLimitError" -> "OpenAIError"
    [] cls = "OpenAIError" -> "Exception"
    [] cls = "Exception" -> "BaseException"
    [] cls = "KeyboardInterrupt" -> "BaseException"
    [] OTHER -> "object"

\* isinstance(e, cls) for an exception e of class c: what an except clause tests.
RECURSIVE IsInstance(_, _)
IsInstance(c, cls) ==
  IF c = cls THEN TRUE
  ELSE IF c \in {"BaseException", "object"} THEN FALSE
  ELSE IsInstance(BaseOf(c), cls)

\* json.loads(content): a str is decoded, a failure being JSONDecodeError;
\* anything else (None) is a TypeError.
LoadsResult(r) == IF r.ok THEN [ok |-> TRUE, v |-> r.v] ELSE [ok |-> FALSE, exc |-> "JSONDecodeError"]
JsonLoads(content) ==
  IF content.t # "str" THEN [ok |-> FALSE, exc |-> "TypeError"]
  ELSE LoadsResult(Decode(content.s, TRUE))

\* The characters sys.stdout cannot encode whatever its encoding: the
\* surrogates U+D800..U+DFFF, which json.loads yields for a lone \uD8xx.
HexLowerDigits == {"0", "1", "2", "3", "4", "5", "6", "7", "8", "9", "a", "b", "c", "d", "e", "f"}
Surrogates ==
  {"\\ud" \o a \o b \o c : a \in {"8", "9", "a", "b", "c", "d", "e", "f"},
                           b \in HexLowerDigits, c \in HexLowerDigits}

\* Whether print(v) raises UnicodeEncodeError: print writes str(v), which for
\* a str is the text itself and for any other value an ASCII rendering.
PrintRaises(v) == v.t = "str" /\ \E k \in 1..Len(v.s) : v.s[k] \in Surrogates

\* The items enumerate(v, 1) yields: the elements of a list, the characters
\* of a str, the keys of a dict; no other value is iterable.
Iterable(v) == v.t \in {"list", "str", "dict"}
Items(v) ==
  CASE v.t = "list" -> v.a
    [] v.t = "str" -> [k \in 1..Len(v.s) |-> PyStr(<<v.s[k]>>)]
    [] v.t = "dict" -> [k \in 1..Len(v.k) |-> PyStr(v.k[k])]

(***************************************************************************)
(* Configuration and the fixed texts.                                      *)
(***************************************************************************)
LLM_MODEL == "gpt-4o-mini"
SystemMessage == "You are an AI that segments markdown documents into slides."
InvalidJsonMessage ==
  "Invalid JSON response from GPT-4o-mini. Ensure model strictly returns a JSON array."

\* The text of the f-string of split_document before {target_slides} ...
PromptHead ==
  <<"\n", " ", " ", " ", " ", "Y", "o", "u", " ", "a", "r", "e", " ", "a", "n", " ", "A", "I",
    " ", "t", "h", "a", "t", " ", "s", "e", "g", "m", "e", "n", "t", "s", " ", "m", "a", "r",
    "k", "d", "o", "w", "n", " ", "d", "o", "c", "u", "m", "e", "n", "t", "s", " ", "i", "n",
    "t", "o", " ", "p", "r", "e", "s", "e", "n", "t", "a", "t", "i", "o", "n", "-", "r", "e",
    "a", "d", "y", " ", "s", "e", "c", "t", "i", "o", "n", "s", ".", " ", "F", "o", "l", "l",
    "o", "w", " ", "t", "h", "e", "s", "e", " ", "e", "x", "a", "c", "t", " ", "r", "u", "l",
    "e", "s", ":", "\n", "\n", " ", " ", " ", " ", "C", "O", "N", "T", "E", "N", "T", " ", "P",
    "R", "E", "S", "E", "R", "V", "A", "T", "I", "O", "N", "\n", " ", " ", " ", " ", "-", " ",
    "S", "p", "l", "i", "t", " ", "t", "h", "e", " ", "d", "o", "c", "u", "m", "e", "n", "t",
    " ", "i", "n", "t", "o", " ", "e", "x", "a", "c", "t", "l", "y", " ">>

\* ... between {target_slides} and {document} ...
PromptMiddle ==
  <<" ", "s", "e", "c", "t", "i", "o", "n", "s", ".", "\n", " ", " ", " ", " ", "-", " ", "D",
    "o", " ", "*", "*", "N", "O", "T", "*", "*", " ", "m", "o", "d", "i", "f", "y", ",", " ",
    "r", "e", "w", "r", "i", "t", "e", ",", " ", "o", "r", " ", "r", "e", "m", "o", "v", "e",
    " ", "*", "*", "A", "N", "Y", "*", "*", " ", "t", "e", "x", "t", ".", "\n", " ", " ", " ",
    " ", "-", " ", "T", "h", "e", " ", "s", "e", "c", "t", "i", "o", "n", "s", " ", "m", "u",
    "s", "t", " ", "m", "a", "t", "c", "h", " ", "t", "h", "e", " ", "o", "r", "i", "g", "i",
    "n", "a", "l", " ", "d", "o", "c", "u", "m", "e", "n", "t", " ", "*", "*", "e", "x", "a",
    "c", "t", "l", "y", "*", "*", " ", "w", "h", "e", "n", " ", "r", "e", "j", "o", "i", "n",
    "e", "d", ".", "\n", " ", " ", " ", " ", "-", " ", "*", "*", "P", "r", "e", "s", "e", "r",
    "v", "e", " ", "A", "L", "L", " ", "m", "a", "r", "k", "d", "o", "w", "n", " ", "f", "o",
    "r", "m", "a", "t", "t", "i", "n", "g", "*", "*", ",", " ", "i", "n", "c", "l", "u", "d",
    "i", "n", "g", ":", "\n", " ", " ", " ", " ", " ", " ", "-", " ", "*", "*", "H", "e", "a",
    "d", "i", "n", "g", "s", "*", "*", " ", "(", "\\u0060", "#", "\\u0060", ",", " ",
    "\\u0060", "#", "#", "\\u0060", ",", " ", "\\u0060", "*", "*", "B", "o", "l", "d", "*",
    "*", "\\u0060", ")", "\n", " ", " ", " ", " ", " ", " ", "-", " ", "*", "*", "L", "i", "s",
    "t", "s", "*", "*", " ", "(", "\\u0060", "-", "\\u0060", ",", " ", "\\u0060", "*",
    "\\u0060", ",", " ", "n", "u", "m", "b", "e", "r", "e", "d", ")", " ", "*", "*", "D", "o",
    " ", "n", "o", "t", " ", "s", "p", "l", "i", "t", " ", "l", "i", "s", "t", "s", " ", "a",
    "c", "r", "o", "s", "s", " ", "s", "e", "c", "t", "i", "o", "n", "s", "*", "*", "\n", " ",
    " ", " ", " ", " ", " ", "-", " ", "*", "*", "C", "o", "d", "e", " ", "b", "l", "o", "c",
    "k", "s", "*", "*", " ", "(", "\\u0060", "\\u0060", "\\u0060", ")", " ", "*", "*", "T",
    "r", "e", "a", "t", " ", "c", "o", "d", "e", " ", "b", "l", "o", "c", "k", "s", " ", "a",
    "s", " ", "s", "i", "n", "g", "l", "e", " ", "u", "n", "i", "t", "s", "*", "*", "\n", " ",
    " ", " ", " ", " ", " ", "-", " ", "*", "*", "T", "a", "b", "l", "e", "s", "*", "*", " ",
    "(", "\\u0060", "|", " ", "C", "o", "l", "u", "m", "n", " ", "|", " ", "D", "a", "t", "a",
    " ", "|", "\\u0060", ")", " ", "*", "*", "K", "e", "e", "p", " ", "t", "a", "b", "l", "e",
    "s", " ", "i", "n", "t", "a", "c", "t", " ", "w", "i", "t", "h", "i", "n", " ", "t", "h",
    "e", " ", "s", "e", "c", "t", "i", "o", "n", "*", "*", "\n", " ", " ", " ", " ", " ", " ",
    "-", " ", "*", "*", "L", "i", "n", "k", "s", "*", "*", " ", "(", "e", ".", "g", ".", ",",
    " ", "\\u0060", "[", "m", "i", "s", "t", "r", "a", "l", ".", "a", "i", "]", "(", "h", "t",
    "t", "p", ":", "/", "/", "m", "i", "s", "t", "r", "a", "l", ".", "a", "i", ")", "\\u0060",
    ")", "\n", " ", " ", " ", " ", " ", " ", "-", " ", "*", "*", "W", "h", "i", "t", "e", "s",
    "p", "a", "c", "e", " ", "a", "n", "d", " ", "l", "i", "n", "e", " ", "b", "r", "e", "a",
    "k", "s", "*", "*", " ", "(", "d", "o", " ", "n", "o", "t", " ", "c", "o", "l", "l", "a",
    "p", "s", "e", " ", "s", "p", "a", "c", "i", "n", "g", ")", ".", "\n", "\n", " ", " ", " ",
    " ", "S", "E", "C", "T", "I", "O", "N", " ", "B", "O", "U", "N", "D", "A", "R", "I", "E",
    "S", "\n", " ", " ", " ", " ", "-", " ", "E", "a", "c", "h", " ", "s", "e", "c", "t", "i",
    "o", "n", " ", "m", "u", "s", "t", " ", "c", "o", "n", "t", "a", "i", "n", " ", "*", "*",
    "O", "N", "E", " ", "c", "o", "m", "p", "l", "e", "t", "e", ",", " ", "c", "o", "h", "e",
    "r", "e", "n", "t", " ", "i", "d", "e", "a", "*", "*", ".", "\n", " ", " ", " ", " ", "-",
    " ", "*", "*", "U", "s", "e", " ", "h", "e", "a", "d", "i", "n", "g", "s", " ", "(", "#",
    ",", " ", "#", "#", ",", " ", "*", "*", "B", "o", "l", "d", "*", "*", ")", " ", "a", "s",
    " ", "p", "r", "i", "m", "a", "r", "y", " ", "s", "p", "l", "i", "t", " ", "p", "o", "i",
    "n", "t", "s", "*", "*", ".", "\n", " ", " ", " ", " ", "-", " ", "*", "*", "N", "E", "V",
    "E", "R", " ", "s", "p", "l", "i", "t", " ", "i", "n", " ", "t", "h", "e", " ", "m", "i",
    "d", "d", "l", "e", " ", "o", "f", ":", "*", "*", "\n", " ", " ", " ", " ", " ", " ", "-",
    " ", "A", " ", "*", "*", "s", "e", "n", "t", "e", "n", "c", "e", "*", "*", " ", "(", "e",
    "n", "s", "u", "r", "e", "s", " ", "r", "e", "a", "d", "a", "b", "i", "l", "i", "t", "y",
    ")", "\n", " ", " ", " ", " ", " ", " ", "-", " ", "A", " ", "*", "*", "c", "o", "d", "e",
    " ", "b", "l", "o", "c", "k", "*", "*", " ", "(", "e", "n", "s", "u", "r", "e", "s", " ",
    "p", "r", "o", "p", "e", "r", " ", "f", "u", "n", "c", "t", "i", "o", "n", " ", "i", "f",
    " ", "i", "t", "'", "s", " ", "a", " ", "s", "c", "r", "i", "p", "t", ")", "\n", " ", " ",
    " ", " ", " ", " ", "-", " ", "A", " ", "*", "*", "l", "i", "s", "t", "*", "*", " ", "(",
    "b", "u", "l", "l", "e", "t", "e", "d", " ", "o", "r", " ", "n", "u", "m", "b", "e", "r",
    "e", "d", ")", "\n", " ", " ", " ", " ", " ", " ", "-", " ", "A", " ", "*", "*", "t", "a",
    "b", "l", "e", "*", "*", " ", "(", "m", "a", "i", "n", "t", "a", "i", "n", "s", " ", "r",
    "e", "a", "d", "a", "b", "i", "l", "i", "t", "y", ")", "\n", " ", " ", " ", " ", " ", " ",
    "-", " ", "A", " ", "*", "*", "f", "o", "o", "t", "n", "o", "t", "e", "*", "*", ",", " ",
    "*", "*", "c", "i", "t", "a", "t", "i", "o", "n", "*", "*", ",", " ", "o", "r", " ", "*",
    "*", "s", "p", "e", "c", "i", "a", "l", " ", "m", "a", "r", "k", "d", "o", "w", "n", " ",
    "e", "l", "e", "m", "e", "n", "t", "*", "*", " ", "(", "e", ".", "g", ".", ",", " ", "b",
    "l", "o", "c", "k", "q", "u", "o", "t", "e", ")", "\n", " ", " ", " ", " ", "-", " ", "*",
    "*", "I", "f", " ", "n", "o", " ", "h", "e", "a", "d", "i", "n", "g", "s", " ", "e", "x",
    "i", "s", "t", "*", "*", ",", " ", "s", "e", "g", "m", "e", "n", "t", " ", "b", "a", "s",
    "e", "d", " ", "o", "n", " ", "*", "*", "t", "o", "p", "i", "c", " ", "t", "r", "a", "n",
    "s", "i", "t", "i", "o", "n", "s", "*", "*", " ", "(", "l", "o", "g", "i", "c", "a", "l",
    " ", "p", "a", "r", "a", "g", "r", "a", "p", "h", " ", "s", "h", "i", "f", "t", "s", ")",
    ".", "\n", " ", " ", " ", " ", "-", " ", "*", "*", "D", "O", " ", "N", "O", "T", " ", "c",
    "r", "e", "a", "t", "e", " ", "s", "e", "c", "t", "i", "o", "n", "s", " ", "w", "i", "t",
    "h", " ", "o", "n", "l", "y", " ", "a", " ", "h", "e", "a", "d", "i", "n", "g", " ", "a",
    "n", "d", " ", "n", "o", " ", "c", "o", "n", "t", "e", "n", "t", "*", "*", ".", "\n", "\n",
    " ", " ", " ", " ", "L", "E", "N", "G", "T", "H", " ", "B", "A", "L", "A", "N", "C", "I",
    "N", "G", "\n", " ", " ", " ", " ", "-", " ", "E", "n", "s", "u", "r", "e", " ", "s", "e",
    "c", "t", "i", "o", "n", "s", " ", "a", "r", "e", " ", "*", "*", "r", "o", "u", "g", "h",
    "l", "y", " ", "e", "q", "u", "a", "l", " ", "i", "n", " ", "l", "e", "n", "g", "t", "h",
    "*", "*", " ", "w", "h", "i", "l", "e", " ", "k", "e", "e", "p", "i", "n", "g", " ", "i",
    "d", "e", "a", "s", " ", "i", "n", "t", "a", "c", "t", ".", "\n", " ", " ", " ", " ", "-",
    " ", "*", "*", "I", "f", " ", "t", "o", "o", " ", "f", "e", "w", " ", "m", "a", "j", "o",
    "r", " ", "i", "d", "e", "a", "s", ":", "*", "*", " ", "*", "*", "C", "o", "m", "b", "i",
    "n", "e", " ", "s", "m", "a", "l", "l", "e", "r", " ", "r", "e", "l", "a", "t", "e", "d",
    " ", "s", "e", "c", "t", "i", "o", "n", "s", "*", "*", ".", "\n", " ", " ", " ", " ", "-",
    " ", "*", "*", "I", "f", " ", "t", "o", "o", " ", "m", "a", "n", "y", " ", "i", "d", "e",
    "a", "s", ":", "*", "*", " ", "*", "*", "S", "p", "l", "i", "t", " ", "l", "a", "r", "g",
    "e", "r", " ", "s", "e", "c", "t", "i", "o", "n", "s", " ", "a", "t", " ", "n", "a", "t",
    "u", "r", "a", "l", " ", "t", "r", "a", "n", "s", "i", "t", "i", "o", "n", " ", "p", "o",
    "i", "n", "t", "s", "*", "*", " ", "(", "e", ".", "g", ".", ",", " ", "a", " ", "c", "h",
    "a", "n", "g", "e", " ", "i", "n", " ", "f", "o", "c", "u", "s", ",", " ", "a", " ", "n",
    "e", "w", " ", "e", "x", "a", "m", "p", "l", "e", ")", ".", "\n", " ", " ", " ", " ", "-",
    " ", "*", "*", "F", "o", "r", " ", "d", "o", "c", "u", "m", "e", "n", "t", "s", " ", "w",
    "i", "t", "h", " ", "N", "O", " ", "H", "E", "A", "D", "I", "N", "G", "S", ":", "*", "*",
    " ", " ", "\n", " ", " ", " ", " ", " ", " ", "-", " ", "I", "d", "e", "n", "t", "i", "f",
    "y", " ", "*", "*", "l", "o", "g", "i", "c", "a", "l", " ", "t", "o", "p", "i", "c", " ",
    "c", "h", "a", "n", "g", "e", "s", "*", "*", " ", "a", "n", "d", " ", "s", "p", "l", "i",
    "t", " ", "a", "c", "c", "o", "r", "d", "i", "n", "g", "l", "y", ".", "\n", " ", " ", " ",
    " ", " ", " ", "-", " ", "*", "*", "D", "o", " ", "N", "O", "T", " ", "a", "r", "b", "i",
    "t", "r", "a", "r", "i", "l", "y", " ", "b", "r", "e", "a", "k", " ", "p", "a", "r", "a",
    "g", "r", "a", "p", "h", "s", "*", "*", "\\u2014", "e", "a", "c", "h", " ", "s", "e", "c",
    "t", "i", "o", "n", " ", "m", "u", "s", "t", " ", "r", "e", "m", "a", "i", "n", " ", "a",
    " ", "s", "e", "l", "f", "-", "c", "o", "n", "t", "a", "i", "n", "e", "d", " ", "i", "d",
    "e", "a", ".", "\n", " ", " ", " ", " ", "\n", " ", " ", " ", " ", "O", "U", "T", "P", "U",
    "T", " ", "F", "O", "R", "M", "A", "T", "\n", " ", " ", " ", " ", "-", " ", "*", "*", "R",
    "e", "t", "u", "r", "n", " ", "O", "N", "L", "Y", " ", "a", " ", "J", "S", "O", "N", " ",
    "a", "r", "r", "a", "y", " ", "o", "f", " ", "s", "t", "r", "i", "n", "g", "s", ":", "*",
    "*", " ", "\\u0060", "[", "\"", "s", "e", "c", "t", "i", "o", "n", "1", "\"", ",", " ",
    "\"", "s", "e", "c", "t", "i", "o", "n", "2", "\"", ",", " ", ".", ".", ".", "]",
    "\\u0060", "\n", " ", " ", " ", " ", "-", " ", "E", "a", "c", "h", " ", "s", "t", "r", "i",
    "n", "g", " ", "s", "h", "o", "u", "l", "d", " ", "c", "o", "n", "t", "a", "i", "n", " ",
    "*", "*", "t", "h", "e", " ", "c", "o", "m", "p", "l", "e", "t", "e", ",", " ", "u", "n",
    "m", "o", "d", "i", "f", "i", "e", "d", " ", "s", "e", "c", "t", "i", "o", "n", " ", "t",
    "e", "x", "t", ".", "*", "*", "\n", " ", " ", " ", " ", "-", " ", "*", "*", "P", "r", "e",
    "s", "e", "r", "v", "e", " ", "A", "L", "L", " ", "o", "r", "i", "g", "i", "n", "a", "l",
    " ", "w", "h", "i", "t", "e", "s", "p", "a", "c", "e", " ", "a", "n", "d", " ", "m", "a",
    "r", "k", "d", "o", "w", "n", " ", "f", "o", "r", "m", "a", "t", "t", "i", "n", "g", ".",
    "*", "*", "\n", " ", " ", " ", " ", "-", " ", "*", "*", "N", "O", " ", "e", "x", "t", "r",
    "a", " ", "e", "x", "p", "l", "a", "n", "a", "t", "i", "o", "n", "s", ",", " ", "c", "o",
    "m", "m", "e", "n", "t", "s", ",", " ", "o", "r", " ", "m", "e", "t", "a", "d", "a", "t",
    "a", "\\u2014", "O", "N", "L", "Y", " ", "r", "e", "t", "u", "r", "n", " ", "t", "h", "e",
    " ", "J", "S", "O", "N", ".", "*", "*", "\n", "\n", " ", " ", " ", " ", "N", "o", "w", ",",
    " ", "p", "r", "o", "c", "e", "s", "s", " ", "t", "h", "e", " ", "f", "o", "l", "l", "o",
    "w", "i", "n", "g", " ", "d", "o", "c", "u", "m", "e", "n", "t", ":", "\n", "\n", " ", " ",
    " ", " ">>

\* ... and after {document}.
PromptTail ==
  <<"\n", " ", " ", " ", " ">>

\* A variant of the f-string that embeds document.strip().
PromptStripped(document, target_slides) ==
  PromptHead \o IntToStr(target_slides) \o PromptMiddle \o RStrip(LStrip(document)) \o PromptTail

\* The f-string of split_document.
Prompt(document, target_slides) ==
  PromptHead \o IntToStr(target_slides) \o PromptMiddle \o document \o PromptTail

\* The messages call_gpt sends.
Messages(prompt) ==
  <<[role |-> "system", content |-> PyStr(<<SystemMessage>>)],
    [role |-> "user", content |-> PyStr(prompt)]>>

(***************************************************************************)
(* The environment: what standard input and the remote model can supply.   *)
(***************************************************************************)
MaxLines == 2
MaxEntryLen == 2
MaxAttempts == 1
MaxItems == 2
MaxJunk == 2

SeqsUpTo(S, n) == UNION {[1..k -> S] : k \in 0..n}

\* The lines input() can return while the document is read, and the
\* documents they make.
Lines == {<<>>, <<" ", "a", "{">>}
Docs == {Join(ls) : ls \in SeqsUpTo(Lines, MaxLines)}

\* The counts a caller of split_document can pass.
TargetInts == {-12, -1, 0, 1, 2, 7, 50, 51, 300}

\* The lines input() can return at the slide-count prompt.
EntryChars == {"0", "5", "-", "+", " ", "a", "."}
Entries == SeqsUpTo(EntryChars, MaxEntryLen)

\* The errors openai.ChatCompletion.create raises.
ApiErrors == {"AuthenticationError", "APIConnectionError", "RateLimitError"}

\* json.dumps(v, separators=(sep, ":")): the JSON text of a value.
DumpChar(c) ==
  CASE c = "\"" -> <<"\\", "\"">>
    [] c = "\\" -> <<"\\", "\\">>
    [] c = "\n" -> <<"\\", "n">>
    [] c = "\\ud800" -> <<"\\", "u", "d", "8", "0", "0">>
    [] OTHER -> <<c>>
RECURSIVE DumpChars(_)
DumpChars(s) == IF s = <<>> THEN <<>> ELSE DumpChar(s[1]) \o DumpChars(Tail(s))
DumpStr(s) == <<"\"">> \o DumpChars(s) \o <<"\"">>
RECURSIVE Dump(_, _), DumpItems(_, _), DumpPairs(_, _, _)
Dump(v, sep) ==
  CASE v.t = "None" -> <<"n", "u", "l", "l">>
    [] v.t = "bool" -> IF v.b THEN <<"t", "r", "u", "e">> ELSE <<"f", "a", "l", "s", "e">>
    [] v.t = "int" -> IntToStr(v.n)
    [] v.t = "float" -> v.lex
    [] v.t = "str" -> DumpStr(v.s)
    [] v.t = "list" -> <<"[">> \o DumpItems(v.a, sep) \o <<"]">>
    [] v.t = "dict" -> <<"{">> \o DumpPairs(v.k, v.v, sep) \o <<"}">>
DumpItems(a, sep) ==
  IF a = <<>> THEN <<>>
  ELSE IF Len(a) = 1 THEN Dump(a[1], sep)
  ELSE Dump(a[1], sep) \o sep \o DumpItems(Tail(a), sep)
DumpPairs(k, v, sep) ==
  IF k = <<>> THEN <<>>
  ELSE IF Len(k) = 1 THEN DumpStr(k[1]) \o <<":">> \o Dump(v[1], sep)
  ELSE DumpStr(k[1]) \o <<":">> \o Dump(v[1], sep) \o sep \o DumpPairs(Tail(k), Tail(v), sep)

\* The section texts the model can answer with, and the lists of them.
Strs == {<<>>, <<"a">>, <<" ", "a", "\n">>, <<"\\ud800">>}
StrLists == {PyList([k \in DOMAIN l |-> PyStr(l[k])]) : l \in SeqsUpTo(Strs, MaxItems)}

\* Answers that are JSON but no array of strings.
OtherValues ==
  { PyNone, PyBool(TRUE), PyInt(0), PyInt(-7), PyFloat(<<"1", ".", "5">>),
    PyStr(<<"a">>), PyStr(<<"a", "\\ud800">>),
    PyDict(<<>>, <<>>), PyDict(<<<<"a">>>>, <<PyInt(1)>>),
    PyDict(<<<<"a">>, <<"\\ud800">>>>, <<PyStr(<<"a">>), PyNone>>),
    PyList(<<PyInt(1)>>), PyList(<<PyNone, PyStr(<<"a">>)>>),
    PyList(<<PyList(<<PyStr(<<"a">>)>>), PyList(<<>>)>>) }

Separators == {<<",">>, <<",", " ">>}
Values == StrLists \cup OtherValues

\* Answers that are not JSON: every short text over JunkChars that is none,
\* and these.
JunkChars == {"[", "]", "\"", ",", "a", "N", "1", " "}
BrokenTexts ==
  { <<"N", "a", "N">>, <<"[", "N", "a", "N", "]">>, <<"I", "n", "f", "i", "n", "i", "t", "y">>,
    <<"-", "I", "n", "f", "i", "n", "i", "t", "y">>,
    <<"[", "\"", "a", "\"">>, <<"[", "\"", "a", "\"", ",", "]">>,
    <<"[", "\"", "a", "\"", " ", "\"", "a", "\"", "]">>, <<"[", "\"", "\\", "x", "\"", "]">>,
    <<"[", "'", "a", "'", "]">>, <<"{", "\"", "a", "\"", "}">>, <<"0", "1">>,
    <<"[", "\"", "a", "\"", "]", "]">>, <<"S", "u", "r", "e", "!">> }

\* The texts the first choice's message content can be.
Contents ==
  SeqsUpTo(JunkChars, MaxJunk) \cup BrokenTexts
    \cup {Dump(v, sep) : v \in Values, sep \in Separators}

(***************************************************************************)
(* The program's state.                                                    *)
(***************************************************************************)
VARIABLES
  pc,              \* where the program is
  document_lines,  \* __main__: the lines read so far
  document,        \* the document text
  target_slides,   \* the slide count
  entry,           \* __main__: the line input() returned at the slide-count prompt
  attempts,        \* __main__: the entries rejected so far
  prompt,          \* split_document / call_gpt: the prompt
  request,         \* the chat-completion request in flight
  content,         \* call_gpt: the content of the first choice
  result,          \* how split_document ended: its value or its exception
  slides,          \* __main__: the sections returned
  idx,             \* __main__: the sections printed so far
  exc,             \* __main__: the exception being propagated
  out,             \* standard output
  events           \* the operations split_document has performed, in order

vars == <<pc, document_lines, document, target_slides, entry, attempts, prompt, request,
          content, result, slides, idx, exc, out, events>>

Unbound == [t |-> "unbound"]
NoResult == [kind |-> "none"]
Returned(v) == [kind |-> "return", v |-> v]
Raised(cls, msg) == [kind |-> "raise", exc |-> [cls |-> cls, msg |-> msg]]

\* What print writes: a fixed line, "=== Slide i ===", str(v) of a section,
\* "An error occurred: " and str(e).
Line(s) == [line |-> s]
\* A variant that counts the slides from 0 (enumerate without its start).
LabelFromZero(i) == [label |-> i - 1]
Label(i) == [label |-> i]
Text(v) == [text |-> v]
ErrorLine(msg) == [error |-> msg]

\* The state when the interpreter starts running the file as a script.
Init ==
  /\ pc = "main"
  /\ document_lines = <<>>
  /\ document = Unbound
  /\ target_slides = Unbound
  /\ entry = Unbound
  /\ attempts = 0
  /\ prompt = Unbound
  /\ request = Unbound
  /\ content = Unbound
  /\ result = NoResult
  /\ slides = Unbound
  /\ idx = 0
  /\ exc = Unbound
  /\ out = <<>>
  /\ events = <<>>

\* The state when a caller that imported the module calls
\* split_document(document, target_slides).
InitSplit ==
  /\ pc = "split_document"
  /\ document_lines = <<>>
  /\ document \in {PyStr(d) : d \in Docs}
  /\ target_slides \in {PyInt(n) : n \in TargetInts}
  /\ entry = Unbound
  /\ attempts = 0
  /\ prompt = Unbound
  /\ request = Unbound
  /\ content = Unbound
  /\ result = NoResult
  /\ slides = Unbound
  /\ idx = 0
  /\ exc = Unbound
  /\ out = <<>>
  /\ events = <<>>

(***************************************************************************)
(* split_document and call_gpt.                                            *)
(***************************************************************************)
\* split_document: the f-string is evaluated and call_gpt(prompt) entered.
BuildPrompt ==
  /\ pc = "split_document"
  /\ prompt' = PyStr(Prompt(document.s, target_slides.n))
  /\ events' = Append(events, "build")
  /\ pc' = "call_gpt"
  /\ UNCHANGED <<document_lines, document, target_slides, entry, attempts, request, content,
                 result, slides, idx, exc, out>>

\* call_gpt: openai.ChatCompletion.create is called with the two messages.
SendRequest ==
  /\ pc = "call_gpt"
  /\ request' = [model |-> LLM_MODEL, messages |-> Messages(prompt.s)]
  /\ events' = Append(events, "request")
  /\ pc' = "await"
  /\ UNCHANGED <<document_lines, document, target_slides, entry, attempts, prompt, content,
                 result, slides, idx, exc, out>>

\* The request fails: create raises, and the exception leaves call_gpt and
\* split_document, neither of which catches it.
RequestFails ==
  /\ pc = "await"
  /\ \E e \in ApiErrors : result' = Raised(e, "request failed")
  /\ request' = Unbound
  /\ pc' = "exit"
  /\ UNCHANGED <<document_lines, document, target_slides, entry, attempts, prompt, content,
                 slides, idx, exc, out, events>>

\* The user presses Ctrl+C while create waits for the remote model: the
\* interpreter raises KeyboardInterrupt in the waiting call, and it leaves
\* call_gpt and split_document like any other exception.
Interrupted ==
  /\ pc = "await"
  /\ result' = Raised("KeyboardInterrupt", "")
  /\ request' = Unbound
  /\ pc' = "exit"
  /\ UNCHANGED <<document_lines, document, target_slides, entry, attempts, prompt, content,
                 slides, idx, exc, out, events>>

\* The response arrives: content is the first choice's message content, a
\* text or None.
ReceiveResponse ==
  /\ pc = "await"
  /\ content' \in {PyStr(c) : c \in Contents} \cup {PyNone}
  /\ request' = Unbound
  /\ pc' = "parse"
  /\ UNCHANGED <<document_lines, document, target_slides, entry, attempts, prompt, result,
                 slides, idx, exc, out, events>>

\* call_gpt's try: return json.loads(content), a JSONDecodeError becoming the
\* ValueError; any other exception of json.loads passes through.
\* A variant that drops the empty sections of a list before returning it.
ReturnOrRaiseFiltered(r) ==
  IF r.ok
  THEN IF r.v.t = "list"
       THEN Returned(PyList(SelectSeq(r.v.a, LAMBDA e : e # PyStr(<<>>))))
       ELSE Returned(r.v)
  ELSE IF IsInstance(r.exc, "JSONDecodeError") THEN Raised("ValueError", InvalidJsonMessage)
  ELSE Raised(r.exc, "the JSON object must be str, bytes or bytearray, not NoneType")

\* A variant that checks the shape: anything but a list of str is refused.
ReturnOrRaiseValidated(r) ==
  IF r.ok /\ r.v.t = "list" /\ \A k \in 1..Len(r.v.a) : r.v.a[k].t = "str" THEN Returned(r.v)
  ELSE IF r.ok \/ IsInstance(r.exc, "JSONDecodeError")
    THEN Raised("ValueError", InvalidJsonMessage)
  ELSE Raised(r.exc, "the JSON object must be str, bytes or bytearray, not NoneType")

ReturnOrRaise(r) ==
  IF r.ok THEN Returned(r.v)
  ELSE IF IsInstance(r.exc, "JSONDecodeError") THEN Raised("ValueError", InvalidJsonMessage)
  ELSE Raised(r.exc, "the JSON object must be str, bytes or bytearray, not NoneType")
CallGptOutcome(c) == ReturnOrRaise(JsonLoads(c))

ParseContent ==
  /\ pc = "parse"
  /\ result' = CallGptOutcome(content)
  /\ events' = Append(events, "parse")
  /\ pc' = "exit"
  /\ UNCHANGED <<document_lines, document, target_slides, entry, attempts, prompt, request,
                 content, slides, idx, exc, out>>

\* A variant that sends the request again after a failure.
ExitSplitRetry ==
  /\ pc = "exit"
  /\ IF result.kind = "return"
     THEN pc' = "returned" /\ prompt' = Unbound /\ result' = result
     ELSE pc' = "call_gpt" /\ prompt' = prompt /\ result' = NoResult
  /\ content' = Unbound
  /\ UNCHANGED <<document_lines, document, target_slides, entry, attempts, request, slides,
                 idx, exc, out, events>>

\* call_gpt and split_document are left, by return or by the exception; their
\* local variables go with them.
ExitSplit ==
  /\ pc = "exit"
  /\ prompt' = Unbound
  /\ content' = Unbound
  /\ pc' = IF result.kind = "return" THEN "returned" ELSE "raised"
  /\ UNCHANGED <<document_lines, document, target_slides, entry, attempts, request, result,
                 slides, idx, exc, out, events>>

(***************************************************************************)
(* The console program.                                                    *)
(***************************************************************************)
\* The two welcome lines.
Welcome ==
  /\ pc = "main"
  /\ out' = out \o <<Line("Welcome to the Document Splitter!"),
                     Line("\nPlease paste your markdown document below (press Ctrl+D or Ctrl+Z when finished):")>>
  /\ document_lines' = <<>>
  /\ pc' = "read_document"
  /\ UNCHANGED <<document, target_slides, entry, attempts, prompt, request, content, result,
                 slides, idx, exc, events>>

\* input() returns a line of the document.
ReadLine ==
  /\ pc = "read_document"
  /\ Len(document_lines) < MaxLines
  /\ \E l \in Lines : document_lines' = Append(document_lines, l)
  /\ UNCHANGED <<pc, document, target_slides, entry, attempts, prompt, request, content,
                 result, slides, idx, exc, out, events>>

\* input() raises EOFError, which `except EOFError` catches: the document is
\* the lines joined.
EndOfDocument ==
  /\ pc = "read_document"
  /\ IsInstance("EOFError", "EOFError")
  /\ document' = PyStr(Join(document_lines))
  /\ pc' = "ask_count"
  /\ UNCHANGED <<document_lines, target_slides, entry, attempts, prompt, request, content,
                 result, slides, idx, exc, out, events>>

\* input(...) writes the slide-count prompt and waits for a line; the line of
\* the turn before is kept nowhere.
AskCount ==
  /\ pc = "ask_count"
  /\ out' = Append(out, Line("\nHow many slides would you like (1-50)? "))
  /\ entry' = Unbound
  /\ pc' = "read_count"
  /\ UNCHANGED <<document_lines, document, target_slides, attempts, prompt, request,
                 content, result, slides, idx, exc, events>>

\* A variant of the range test that lets 0 through.
InRangeFromZero(n) == 0 <= n /\ n <= 50

\* The range test of the slide-count loop.
InRange(n) == 1 <= n /\ n <= 50

\* A line arrives and int() rejects it: `except ValueError` prints and the
\* loop starts over.
CountNotANumber ==
  /\ pc = "read_count"
  /\ attempts < MaxAttempts
  /\ \E e \in Entries :
       /\ ~IntParse(e).ok
       /\ IsInstance(IntParse(e).exc, "ValueError")
       /\ entry' = PyStr(e)
  /\ out' = Append(out, Line("Please enter a valid number."))
  /\ attempts' = attempts + 1
  /\ pc' = "ask_count"
  /\ UNCHANGED <<document_lines, document, target_slides, prompt, request, content, result,
                 slides, idx, exc, events>>

\* A line arrives, int() takes it and the number is out of range: the loop
\* prints and starts over.
CountOutOfRange ==
  /\ pc = "read_count"
  /\ attempts < MaxAttempts
  /\ \E e \in Entries :
       /\ IntParse(e).ok
       /\ ~InRange(IntParse(e).n)
       /\ entry' = PyStr(e)
       /\ target_slides' = PyInt(IntParse(e).n)
  /\ out' = Append(out, Line("Please enter a number between 1 and 50."))
  /\ attempts' = attempts + 1
  /\ pc' = "ask_count"
  /\ UNCHANGED <<document_lines, document, prompt, request, content, result, slides, idx,
                 exc, events>>

\* A line arrives, int() takes it and the number is in range: break.
CountAccepted ==
  /\ pc = "read_count"
  /\ \E e \in Entries :
       /\ IntParse(e).ok
       /\ InRange(IntParse(e).n)
       /\ entry' = PyStr(e)
       /\ target_slides' = PyInt(IntParse(e).n)
  /\ pc' = "processing"
  /\ UNCHANGED <<document_lines, document, attempts, prompt, request, content, result,
                 slides, idx, exc, out, events>>

\* Standard input is at its end (a pipe or file that is exhausted, or Ctrl+D
\* again): input() raises EOFError, which `except ValueError` does not catch
\* and nothing else does.
CountEndOfInput ==
  /\ pc = "read_count"
  /\ ~IsInstance("EOFError", "ValueError")
  /\ exc' = [cls |-> "EOFError", msg |-> "EOF when reading a line"]
  /\ pc' = "crashed"
  /\ UNCHANGED <<document_lines, document, target_slides, entry, attempts, prompt, request,
                 content, result, slides, idx, out, events>>

\* A variant that prints the heading of the slides before the call.
StartProcessingWithHeading ==
  /\ pc = "processing"
  /\ out' = out \o <<Line("\nProcessing your document..."), Line("\nHere are your slides:\n")>>
  /\ entry' = Unbound
  /\ pc' = "split_document"
  /\ UNCHANGED <<document_lines, document, target_slides, attempts, prompt, request, content,
                 result, slides, idx, exc, events>>

\* print("\nProcessing your document...") and, inside the try, the call of
\* split_document(document, target_slides).
StartProcessing ==
  /\ pc = "processing"
  /\ out' = Append(out, Line("\nProcessing your document..."))
  /\ entry' = Unbound
  /\ pc' = "split_document"
  /\ UNCHANGED <<document_lines, document, target_slides, attempts, prompt, request, content,
                 result, slides, idx, exc, events>>

\* slides = split_document(...) returned: the heading is printed and the for
\* loop starts, enumerate raising TypeError for a value that is not iterable.
ReceiveSlides ==
  /\ pc = "returned"
  /\ slides' = result.v
  /\ out' = Append(out, Line("\nHere are your slides:\n"))
  /\ idx' = 0
  /\ IF Iterable(result.v)
     THEN pc' = "print_loop" /\ exc' = exc
     ELSE /\ pc' = "except"
          /\ exc' = [cls |-> "TypeError", msg |-> "object is not iterable"]
  /\ UNCHANGED <<document_lines, document, target_slides, entry, attempts, prompt, request,
                 content, result, events>>

\* One turn of the for loop: the label, the section, an empty line.  print
\* raises UnicodeEncodeError for a section standard output cannot encode,
\* after the label has been written.
PrintSlide ==
  /\ pc = "print_loop"
  /\ idx < Len(Items(slides))
  /\ LET slide == Items(slides)[idx + 1]
     IN IF PrintRaises(slide)
        THEN /\ out' = Append(out, Label(idx + 1))
             /\ exc' = [cls |-> "UnicodeEncodeError", msg |-> "surrogates not allowed"]
             /\ pc' = "except"
             /\ idx' = idx
        ELSE /\ out' = out \o <<Label(idx + 1), Text(slide), Line("")>>
             /\ idx' = idx + 1
             /\ UNCHANGED <<pc, exc>>
  /\ UNCHANGED <<document_lines, document, target_slides, entry, attempts, prompt, request,
                 content, result, slides, events>>

\* The for loop is exhausted: the program ends.
EndOfSlides ==
  /\ pc = "print_loop"
  /\ idx = Len(Items(slides))
  /\ pc' = "done"
  /\ UNCHANGED <<document_lines, document, target_slides, entry, attempts, prompt, request,
                 content, result, slides, idx, exc, out, events>>

\* A variant that catches the designated error only.
CaughtValueError == "ValueError"

\* The class `except ... as e` of the try around split_document catches.
Caught == "Exception"

\* split_document raised: the exception reaches the try of __main__.
SplitRaised ==
  /\ pc = "raised"
  /\ exc' = result.exc
  /\ pc' = "except"
  /\ UNCHANGED <<document_lines, document, target_slides, entry, attempts, prompt, request,
                 content, result, slides, idx, out, events>>

\* The except clause: an exception of the caught class is printed and the
\* program ends; any other leaves the program uncaught.
HandleException ==
  /\ pc = "except"
  /\ IF IsInstance(exc.cls, Caught)
     THEN /\ out' = Append(out, ErrorLine(exc.msg))
          /\ pc' = "done"
     ELSE /\ out' = out
          /\ pc' = "crashed"
  /\ UNCHANGED <<document_lines, document, target_slides, entry, attempts, prompt, request,
                 content, result, slides, idx, exc, events>>

NextSplit ==
  \/ BuildPrompt
  \/ SendRequest
  \/ RequestFails
  \/ Interrupted
  \/ ReceiveResponse
  \/ ParseContent
  \/ ExitSplit

Next ==
  \/ Welcome
  \/ ReadLine
  \/ EndOfDocument
  \/ AskCount
  \/ CountNotANumber
  \/ CountOutOfRange
  \/ CountAccepted
  \/ CountEndOfInput
  \/ StartProcessing
  \/ BuildPrompt
  \/ SendRequest
  \/ RequestFails
  \/ Interrupted
  \/ ReceiveResponse
  \/ ParseContent
  \/ ExitSplit
  \/ ReceiveSlides
  \/ PrintSlide
  \/ EndOfSlides
  \/ SplitRaised
  \/ HandleException

\* The console program.
Spec == Init /\ [][Next]_vars

\* One call of split_document by an importing caller.
SpecSplit == InitSplit /\ [][NextSplit]_vars

(***************************************************************************)
(* The properties.                                                         *)
(***************************************************************************)
IsSubstring(sub, s) ==
  \E i \in 0..(Len(s) - Len(sub)) : SubSeq(s, i + 1, i + Len(sub)) = sub
IsPrefix(p, s) == Len(p) <= Len(s) /\ SubSeq(s, 1, Len(p)) = p
Count(s, e) == Cardinality({k \in 1..Len(s) : s[k] = e})
Last(s) == s[Len(s)]

\* The decimal rendering of each count a caller passes.
DecimalText(n) ==
  CASE n = -12 -> <<"-", "1", "2">> [] n = -1 -> <<"-", "1">> [] n = 0 -> <<"0">>
    [] n = 1 -> <<"1">> [] n = 2 -> <<"2">> [] n = 7 -> <<"7">> [] n = 50 -> <<"5", "0">>
    [] n = 51 -> <<"5", "1">> [] n = 300 -> <<"3", "0", "0">>

\* C1: the prompt split_document builds and hands to call_gpt holds the
\* document verbatim, as a contiguous run of characters, and the decimal
\* rendering of the count; the request call_gpt sends has it as the content
\* of its one user message.
C1_PromptEmbedsDocumentAndCount ==
  /\ pc \in {"call_gpt", "await"} =>
       /\ IsSubstring(document.s, prompt.s)
       /\ IsSubstring(DecimalText(target_slides.n), prompt.s)
  /\ pc = "await" =>
       /\ Count([k \in 1..Len(request.messages) |-> request.messages[k].role], "user") = 1
       /\ \A k \in 1..Len(request.messages) :
            request.messages[k].role = "user" => request.messages[k].content = prompt
C1_Witness ==
  /\ pc = "await"
  /\ document = PyStr(<<"\n", " ", "a", "{">>)
  /\ target_slides = PyInt(-12)

\* The JSON texts of the lists of strings, each with the list it denotes.
StrArrayTexts == {<<Dump(l, sep), l>> : l \in StrLists, sep \in Separators}

\* C2: when the content is the JSON text of an array of strings, call_gpt
\* (and so split_document) returns that list: same length, same order, same
\* elements, none added, dropped or trimmed.
C2_StringArrayReturnedUnchanged ==
  (pc = "exit" /\ content # Unbound /\ content.t = "str") =>
    \A p \in StrArrayTexts : content.s = p[1] => result = [kind |-> "return", v |-> p[2]]
C2_Witness ==
  /\ pc = "exit"
  /\ content = PyStr(Dump(PyList(<<PyStr(<<" ", "a", "\n">>), PyStr(<<>>)>>), <<",", " ">>))
  /\ result = [kind |-> "return", v |-> PyList(<<PyStr(<<" ", "a", "\n">>), PyStr(<<>>)>>)]

\* JSON as RFC 8259 defines it: no NaN, no Infinity.
IsJsonText(c) == c.t = "str" /\ Decode(c.s, FALSE).ok

\* C3: whenever the content of the response is not valid JSON, call_gpt
\* raises the ValueError with the 'Invalid JSON response' message, and
\* nothing else.
C3_NonJsonRaisesValueError ==
  (pc = "exit" /\ content # Unbound /\ ~IsJsonText(content)) =>
    result = [kind |-> "raise",
              exc |-> [cls |-> "ValueError", msg |-> InvalidJsonMessage]]

\* The lines int() reads as a number from 1 to 50: the decimal digits, zeros
\* and a "+" allowed before them, blanks allowed around.
Blanks == SeqsUpTo({" "}, MaxEntryLen)
Zeros == SeqsUpTo({"0"}, MaxEntryLen)
EntriesFor(n) ==
  {l \o sg \o z \o IntToStr(n) \o r : l \in Blanks, r \in Blanks, z \in Zeros,
                                     sg \in {<<>>, <<"+">>}}
AcceptableEntries == UNION {EntriesFor(n) : n \in 1..50}
BeforeTheCall == {"main", "read_document", "ask_count", "read_count"}
CountPrompt == [line |-> "\nHow many slides would you like (1-50)? "]
Rejections ==
  {[line |-> "Please enter a valid number."], [line |-> "Please enter a number between 1 and 50."]}

\* C4: the slide-count loop rejects every entry that is no integer from 1 to
\* 50 and prompts again after each rejection; it is passed only on such an
\* integer, so split_document is called with 1 <= target_slides <= 50 and
\* never before.
C4_OnlyCountsInRangeReachSplit ==
  /\ pc \in BeforeTheCall => events = <<>> /\ result = NoResult
  /\ (events # <<>> \/ pc \in {"processing", "split_document"}) =>
       target_slides.t = "int" /\ 1 <= target_slides.n /\ target_slides.n <= 50
  /\ pc = "processing" =>
       /\ entry.s \in AcceptableEntries
       /\ entry.s \in EntriesFor(target_slides.n)
  /\ (pc = "ask_count" /\ entry # Unbound) =>
       /\ entry.s \notin AcceptableEntries
       /\ Last(out) \in Rejections
  /\ pc = "ask_count" => Count(out, CountPrompt) = attempts
  /\ pc = "read_count" => Last(out) = CountPrompt /\ Count(out, CountPrompt) = attempts + 1
C4_Witness ==
  /\ pc = "processing"
  /\ attempts = 1
  /\ entry = PyStr(<<"5", "0">>)
  /\ target_slides = PyInt(50)

\* C5 as first stated: an exception raised by the network call, by the JSON
\* parsing or by the printing of the sections, whatever its type, is caught by
\* the try of the console program: none leaves the program uncaught.
C5_EveryExceptionCaught ==
  pc = "crashed" => events = <<>> /\ result = NoResult /\ slides = Unbound

\* C5, amended: an exception of a class derived from Exception (every error
\* the request, the parsing and the printing raise themselves) is caught by
\* the try of the console program, which prints 'An error occurred' with its
\* message and ends; what leaves the program uncaught from that stage is a
\* KeyboardInterrupt only, which `except Exception` does not cover.
C5_ProcessingErrorsAreCaught ==
  /\ (pc = "crashed" /\ events # <<>>) => exc.cls = "KeyboardInterrupt"
  /\ (pc = "done" /\ result.kind = "raise") =>
       exc = result.exc /\ exc.cls # "KeyboardInterrupt"
  /\ (pc = "done" /\ exc # Unbound) => Last(out) = [error |-> exc.msg]
C5_Witness ==
  /\ pc = "done"
  /\ result.kind = "raise"
  /\ exc.cls = "TypeError"
  /\ Last(out) = [error |-> exc.msg]

\* C6: once the document has been ended by end-of-input, no run ends by an
\* uncaught exception raised while the slide count is read.
C6_NoUncaughtErrorAtSlideCount ==
  ~(pc = "crashed" /\ document # Unbound /\ events = <<>> /\ exc.cls = "EOFError")

\* What is printed after the heading of the slides.
HeadingLine == [line |-> "\nHere are your slides:\n"]
RECURSIVE AfterHeading(_)
AfterHeading(o) ==
  IF o = <<>> THEN <<>> ELSE IF o[1] = HeadingLine THEN Tail(o) ELSE AfterHeading(Tail(o))
\* The first n labeled blocks of the sections a.
RECURSIVE Blocks(_, _)
Blocks(a, n) ==
  IF n = 0 THEN <<>>
  ELSE Blocks(a, n - 1) \o <<[label |-> n], [text |-> a[n]], [line |-> ""]>>
ReturnedList == result.kind = "return" /\ result.v.t = "list"

\* C7 as first stated: when split_document returns a list of n sections, the
\* program prints exactly n labeled blocks, 'Slide i' then the i-th section.
C7_AllBlocksPrinted ==
  (pc = "done" /\ ReturnedList) => AfterHeading(out) = Blocks(result.v.a, Len(result.v.a))

\* C7, amended: the blocks are printed in the order of the list, block i
\* being 'Slide i' then the i-th section; all n are printed unless print
\* raises on a section, the k-th, and then the blocks before it, the label
\* 'Slide k' and the error message are what is printed.
C7_BlocksInOrderUntilPrintRaises ==
  ReturnedList =>
    /\ pc = "print_loop" => AfterHeading(out) = Blocks(result.v.a, idx)
    /\ (pc = "done" /\ exc = Unbound) =>
         /\ AfterHeading(out) = Blocks(result.v.a, Len(result.v.a))
         /\ \A k \in 1..Len(result.v.a) : ~PrintRaises(result.v.a[k])
    /\ (pc = "done" /\ exc # Unbound) =>
         \E k \in 1..Len(result.v.a) :
           /\ PrintRaises(result.v.a[k])
           /\ \A j \in 1..(k - 1) : ~PrintRaises(result.v.a[j])
           /\ AfterHeading(out) =
                Blocks(result.v.a, k - 1) \o <<[label |-> k], [error |-> exc.msg]>>
C7_Witness ==
  /\ pc = "done"
  /\ exc = Unbound
  /\ target_slides = PyInt(50)
  /\ result = [kind |-> "return", v |-> PyList(<<PyStr(<<" ", "a", "\n">>), PyStr(<<"a">>)>>)]
  /\ Len(AfterHeading(out)) = 6

\* C8: one call of split_document builds the prompt once, sends exactly one
\* request and parses at most once, in this order, then returns or raises;
\* the request is not sent again, neither after it failed nor after the
\* parse failed.
C8_OneRequestNoRetry ==
  /\ IsPrefix(events, <<"build", "request", "parse">>)
  /\ pc \in {"await", "parse", "exit", "returned", "raised"} =>
       Count(events, "build") = 1 /\ Count(events, "request") = 1
  /\ pc \in {"exit", "returned", "raised"} =>
       /\ result # NoResult
       /\ result.kind = "return" => Count(events, "parse") = 1
       /\ Count(events, "parse") = 0 => result.kind = "raise" /\ result.exc.cls # "ValueError"
C8_Witness ==
  /\ pc = "raised"
  /\ events = <<"build", "request", "parse">>
  /\ result.exc.cls = "ValueError"

\* The JSON texts of all the values, each with the value it denotes.
ValueTexts == {<<Dump(v, sep), v>> : v \in Values, sep \in Separators}

EndsWithError == pc = "done" /\ out # <<>> /\ "error" \in DOMAIN Last(out)
IsBlockPart(item) == "label" \in DOMAIN item \/ "text" \in DOMAIN item

\* C10 as first stated: in a run that ends with the 'An error occurred'
\* message, no 'Slide i' label and no section has been printed before it.
C10_NothingPrintedBeforeError ==
  EndsWithError => \A k \in 1..Len(out) : ~IsBlockPart(out[k])

\* C10, amended: in a run that ends with the 'An error occurred' message for
\* an exception split_document raised (the request or the JSON parsing
\* failed), nothing has been printed between 'Processing your document...'
\* and the message; labels and sections precede the message only when it was
\* print that raised, on a section of a value split_document returned.
C10_NothingPrintedBeforeSplitError ==
  EndsWithError =>
    /\ result.kind = "raise" =>
         /\ Len(out) >= 2
         /\ out[Len(out) - 1] = [line |-> "\nProcessing your document..."]
    /\ (\E k \in 1..Len(out) : IsBlockPart(out[k])) =>
         result.kind = "return" /\ exc.cls = "UnicodeEncodeError"
C10_Witness ==
  /\ EndsWithError
  /\ result.kind = "raise"
  /\ result.exc.cls = "ValueError"
====
